---- MODULE Spec2Model ----
(***************************************************************************)
(* TileStache/Memcache.py: the tile key, and the Cache class that keeps    *)
(* rendered tiles and per-tile locks in a memcached store.                 *)
(*                                                                         *)
(* Time is counted in ticks of 100 ms.  The store is the memcached server  *)
(* set the Cache talks to: a map from key strings to entries, an entry     *)
(* being <<value, expiry>> (expiry 0: never) and <<>> meaning no entry.    *)
(***************************************************************************)
EXTENDS Integers, Sequences, FiniteSets, TLC

\* ------------------------------------------------------------------ bounds

\* The clock runs from 0 to MaxTime ticks.
MaxTime == 8
\* layer.stale_lock_timeout ranges over 0..MaxTimeout ticks.
MaxTimeout == 4
\* layer.cache_lifespan ranges over None and 0..MaxLifespan ticks.
MaxLifespan == 2
\* The clock of the tile operations runs from 0 to MaxTileTime ticks.
MaxTileTime == 3
\* A caller leaves at most MaxLeaks sessions open before the model stops it.
MaxLeaks == 1
\* The zoom, column and row handed to tile_key range over 0..MaxCoord.
MaxCoord == 1

\* ------------------------------------------------------ program constants

\* _sleep(.2): the poll interval, in ticks.
Poll == 2

\* The callers: independent processes that share nothing but the store.
Callers == {"A", "B", "C"}

\* Python's None: the absence marker of mem.get, and an unset cache_lifespan.
None == <<>>

\* The tile bodies that are saved.
Bodies == {"b1", "b2"}

\* What Cache.lock writes as the value of a Lock Entry.
LockedValue == "locked."

\* ------------------------------------------------------------- tile_key

\* An auth id is an integer <<"int", n>> or a string <<"str", characters>>.
IntId(n) == <<"int", n>>
StrId(chars) == <<"str", chars>>

\* The characters of the string ids, with their codes.
Code == ("." :> 46) @@ ("/" :> 47) @@ ("1" :> 49) @@ ("2" :> 50)

\* The string of a sequence of characters.
RECURSIVE Chars(_)
Chars(cs) == IF Len(cs) = 0 THEN "" ELSE cs[1] \o Chars(Tail(cs))

\* str(id)
str(id) == IF id[1] = "int" THEN ToString(id[2]) ELSE Chars(id[2])

\* a < b for strings: the first character that differs decides, a prefix
\* comes first
RECURSIVE StrLess(_, _)
StrLess(a, b) ==
    IF Len(b) = 0 THEN FALSE
    ELSE IF Len(a) = 0 THEN TRUE
    ELSE IF Code[a[1]] /= Code[b[1]] THEN Code[a[1]] < Code[b[1]]
    ELSE StrLess(Tail(a), Tail(b))

\* a <= b as sorted() compares ids: numbers by value, strings by character,
\* a number before a string
IdLe(a, b) ==
    IF a[1] = "int" /\ b[1] = "int" THEN a[2] <= b[2]
    ELSE IF a[1] = "int" THEN TRUE
    ELSE IF b[1] = "int" THEN FALSE
    ELSE ~StrLess(b[2], a[2])

\* "/".join(str(id) for id in ids), ids already sorted
RECURSIVE JoinIds(_)
JoinIds(ids) ==
    IF Len(ids) = 0 THEN ""
    ELSE IF Len(ids) = 1 THEN str(ids[1])
    ELSE str(ids[1]) \o "/" \o JoinIds(Tail(ids))

\* sorted(auth): insertion of each id in its place
RECURSIVE Insert(_, _)
Insert(x, s) ==
    IF Len(s) = 0 THEN <<x>>
    ELSE IF IdLe(x, s[1]) THEN <<x>> \o s
    ELSE <<s[1]>> \o Insert(x, Tail(s))

RECURSIVE sorted(_)
sorted(auth) ==
    IF Len(auth) = 0 THEN <<>> ELSE Insert(auth[1], sorted(Tail(auth)))

\* tile_key that leaves the revision out of the key
tile_key_NoRev(layer, coord, auth, format, rev, key_prefix) ==
    LET name == layer.name
        tile == ToString(coord.zoom) \o "/" \o ToString(coord.column)
                  \o "/" \o ToString(coord.row)
    IN  IF Len(auth) > 0
        THEN key_prefix \o "/" \o name \o "/" \o tile
               \o "/" \o JoinIds(sorted(auth)) \o "." \o format
        ELSE key_prefix \o "/" \o name \o "/" \o tile \o "." \o format

\* tile_key that joins the ids as they come: "/".join(str(id) for id in auth)
tile_key_Unsorted(layer, coord, auth, format, rev, key_prefix) ==
    LET name == layer.name
        tile == ToString(coord.zoom) \o "/" \o ToString(coord.column)
                  \o "/" \o ToString(coord.row)
    IN  IF Len(auth) > 0
        THEN key_prefix \o "/" \o ToString(rev) \o "/" \o name \o "/" \o tile
               \o "/" \o JoinIds(auth) \o "." \o format
        ELSE key_prefix \o "/" \o ToString(rev) \o "/" \o name \o "/" \o tile
               \o "." \o format

\* tile_key(layer, coord, auth, format, rev, key_prefix)
tile_key(layer, coord, auth, format, rev, key_prefix) ==
    LET name == layer.name
        tile == ToString(coord.zoom) \o "/" \o ToString(coord.column)
                  \o "/" \o ToString(coord.row)
    IN  IF Len(auth) > 0
        THEN key_prefix \o "/" \o ToString(rev) \o "/" \o name \o "/" \o tile
               \o "/" \o JoinIds(sorted(auth)) \o "." \o format
        ELSE key_prefix \o "/" \o ToString(rev) \o "/" \o name \o "/" \o tile
               \o "." \o format

\* ------------------------------------------------------ the tiles in play

\* Cache.__init__ defaults
DefaultCache ==
    [servers |-> <<"127.0.0.1:11211">>, revision |-> 0, key_prefix |-> ""]

\* The layers: one name, every stale_lock_timeout and cache_lifespan in bounds.
\* A cache_lifespan is None or <<n>>, a number of ticks.
Layers ==
    [name : {"osm"}, stale_lock_timeout : 0..MaxTimeout,
     cache_lifespan : {None} \cup {<<n>> : n \in 0..MaxLifespan}]

\* The tile identities (without the layer) that callers ask for.
Tile1 == [coord |-> [zoom |-> 1, column |-> 0, row |-> 0], auth |-> <<>>, format |-> "png"]
Tile2 == [coord |-> [zoom |-> 1, column |-> 1, row |-> 0], auth |-> <<IntId(2), IntId(1)>>, format |-> "png"]
Tiles == {Tile1, Tile2}

\* A tile whose one auth id is the string "1/2".
Tile3 == [coord |-> [zoom |-> 1, column |-> 1, row |-> 0],
          auth |-> <<StrId(<<"1", "/", "2">>)>>, format |-> "png"]
AllTiles == Tiles \cup {Tile3}

\* The inputs of tile_key: layer names and formats with and without the
\* separators "/" and ".", numbers and a string as auth ids, every auth list
\* that names no id twice.
KeyNames == {"osm", "osm/1"}
KeyFormats == {"png", "jpg"}
AuthIds == {IntId(1), IntId(2), StrId(<<"1", "/", "2">>)}
Auths ==
    {a \in UNION {[1..n -> AuthIds] : n \in 0..Cardinality(AuthIds)} :
        \A i, j \in DOMAIN a : i /= j => a[i] /= a[j]}
Identities ==
    [layer : [name : KeyNames],
     coord : [zoom : 0..MaxCoord, column : 0..MaxCoord, row : 0..MaxCoord],
     auth : Auths, format : KeyFormats]

VARIABLES
    now,      \* _time(), in ticks
    self,     \* the Cache instance: servers, revision, key_prefix
    layer,    \* the layer of the tiles: name, stale_lock_timeout, cache_lifespan
    store,    \* the memcached store: key -> <<value, expiry>> or <<>>
    pc,       \* where each caller is: idle, inside lock (test/add/sleep/set), held
    arg,      \* the tile of a caller's lock call
    due,      \* lock's local "due" of each caller
    wake,     \* when a caller's _sleep(.2) ends
    open,     \* sessions (Client objects) each caller has open
    closes,   \* disconnect_all calls made by a caller's last lock call
    via,      \* how a caller's last lock call ended: add, set, raised
    adds,     \* mem.add attempts of a caller's last lock call
    took,     \* ticks from the start of a caller's last lock call to its return
    result,   \* what the last operation gave back: <<key, value>> of a read, or None
    stolen,   \* some lock call has executed the deadline mem.set
    lapsed,   \* a Lock Entry expired while a caller was holding the lock
    unlocks,  \* the unlock calls so far: none, holder (each by a caller that
              \* held the lock), rogue (one by a caller that did not)
    race,     \* the callers whose lock call began on an UNLOCKED key, no Lock
              \* Entry of that key deleted or expired since
    handoff,  \* the pending hand-off: <<tick of the holder's unlock, kind>>
    heir,     \* the hand-off made: <<kind, add or set, ticks after the unlock>>
    began,    \* the callers that have started a lock call in this tick
    saved,    \* per key: None, the last save <<body, tick>>, Removed or Expired
    sets,     \* mem.set calls of a caller's last lock call
    idents,   \* two Tile Identities handed to tile_key, or None
    keys      \* the keys tile_key gave for them, or None

vars == <<now, self, layer, store, pc, arg, due, wake, open, closes, via, adds,
          took, result, stolen, lapsed, unlocks, race, handoff, heir, began, saved,
          sets, idents, keys>>

\* The key of a tile under the Cache instance and the layer.
KeyOf(t) == tile_key(layer, t.coord, t.auth, t.format, self.revision, self.key_prefix)
LockKeyOf(t) == KeyOf(t) \o "-lock"

\* Every key the callers can touch, for a layer name and a Cache instance.
KeysFor(c, l) ==
    UNION {{tile_key(l, t.coord, t.auth, t.format, c.revision, c.key_prefix),
            tile_key(l, t.coord, t.auth, t.format, c.revision, c.key_prefix) \o "-lock"}
           : t \in AllTiles}

\* Cache(revision=r): the instance with the default servers and key_prefix
CacheOf(r) == [DefaultCache EXCEPT !.revision = r]

\* The revisions of the Cache instances in play: the default and another.
Revisions == {DefaultCache.revision, DefaultCache.revision + 1}

\* Every key the callers can touch through the Cache instances of all revisions.
KeysOfAll(l) == UNION {KeysFor(CacheOf(r), l) : r \in Revisions}

\* ------------------------------------------------- the store (memcache.Client)

\* An entry is there: it was written and its time has not run out.
Live(s, k, t) == s[k] /= <<>> /\ (s[k][2] = 0 \/ t < s[k][2])

\* The expiry of an entry written at t with "time" ticks to live (0: never).
Expiry(time, t) == IF time = 0 THEN 0 ELSE t + time

\* mem.add(key, val, time): whether it creates the entry
add_ok(s, k, t) == ~Live(s, k, t)

\* mem.add(key, val, time): creates the entry only if there is none
mem_add(s, k, v, time, t) ==
    IF Live(s, k, t) THEN s ELSE [s EXCEPT ![k] = <<v, Expiry(time, t)>>]

\* mem.set(key, val, time): writes the entry whatever is there
mem_set(s, k, v, time, t) == [s EXCEPT ![k] = <<v, Expiry(time, t)>>]

\* mem.get(key): the value, or None
mem_get(s, k, t) == IF Live(s, k, t) THEN <<s[k][1]>> ELSE None

\* mem.delete(key): no entry afterwards; nothing to do when there is none
mem_delete(s, k) == [s EXCEPT ![k] = <<>>]

\* The store at time t: the entries whose time has run out are gone.
Purge(s, t) == [k \in DOMAIN s |-> IF Live(s, k, t) THEN s[k] ELSE <<>>]

\* ----------------------------------------------------------------- Init

TypeOK ==
    /\ now \in 0..MaxTime
    /\ layer \in Layers
    /\ pc \in [Callers -> {"idle", "test", "add", "sleep", "set", "held"}]
    /\ arg \in [Callers -> AllTiles]
    /\ open \in [Callers -> 0..MaxLeaks]
    /\ race \subseteq Callers

\* The state after construction, for the layers, the keys of the store and
\* the inputs of tile_key that a specification takes.
InitWith(layers, ks, ids) ==
    /\ now = 0
    /\ self = DefaultCache
    /\ layer \in layers
    /\ store = [k \in ks |-> <<>>]
    /\ pc = [c \in Callers |-> "idle"]
    /\ arg = [c \in Callers |-> Tile1]
    /\ due = [c \in Callers |-> 0]
    /\ wake = [c \in Callers |-> 0]
    /\ open = [c \in Callers |-> 0]
    /\ closes = [c \in Callers |-> 0]
    /\ via = [c \in Callers |-> "none"]
    /\ adds = [c \in Callers |-> 0]
    /\ took = [c \in Callers |-> 0]
    /\ result = None
    /\ stolen = FALSE
    /\ lapsed = FALSE
    /\ unlocks = "none"
    /\ race = {}
    /\ handoff = None
    /\ heir = None
    /\ began = [c \in Callers |-> FALSE]
    /\ saved = [k \in ks |-> None]
    /\ sets = [c \in Callers |-> 0]
    /\ idents \in ids
    /\ keys = None

Init == InitWith(Layers, KeysFor(self, layer), {None})

\* ------------------------------------------------------------ Cache.lock

\* The caller holds the lock of tile t: its lock call returned, no unlock yet.
Holds(c, t) == pc[c] = "held" /\ arg[c] = t

\* The caller is inside a lock call on tile t.
Waits(c, t) == pc[c] \in {"test", "add", "sleep", "set"} /\ arg[c] = t

\* mem.disconnect_all(): the caller's session is closed
Disconnect(c) ==
    /\ open' = [open EXCEPT ![c] = @ - 1]
    /\ closes' = [closes EXCEPT ![c] = @ + 1]

\* lock returns (after "finally"): the caller believes it holds the lock
LockReturn(c, how) ==
    /\ Disconnect(c)
    /\ pc' = [pc EXCEPT ![c] = "held"]
    /\ via' = [via EXCEPT ![c] = how]
    /\ took' = [took EXCEPT ![c] = now - (due[c] - layer.stale_lock_timeout)]
    /\ due' = [due EXCEPT ![c] = 0]
    /\ wake' = [wake EXCEPT ![c] = 0]
    /\ handoff' = None
    /\ heir' = IF handoff = None THEN heir
               ELSE <<handoff[2], how, now - handoff[1]>>

\* LockStart with the timeout left out of due: due = _time()
LockStart_DueNow(c, t) ==
    /\ pc[c] = "idle"
    /\ open[c] < MaxLeaks
    /\ ~began[c]
    /\ now + layer.stale_lock_timeout + Poll <= MaxTime
    /\ open' = [open EXCEPT ![c] = @ + 1]
    /\ closes' = [closes EXCEPT ![c] = 0]
    /\ arg' = [arg EXCEPT ![c] = t]
    /\ due' = [due EXCEPT ![c] = now]
    /\ pc' = [pc EXCEPT ![c] = "test"]
    /\ via' = [via EXCEPT ![c] = "none"]
    /\ adds' = [adds EXCEPT ![c] = 0]
    /\ took' = [took EXCEPT ![c] = 0]
    /\ race' = IF Live(store, LockKeyOf(t), now) THEN race \ {c} ELSE race \cup {c}
    /\ handoff' = None
    /\ heir' = None
    /\ began' = [began EXCEPT ![c] = TRUE]
    /\ sets' = [sets EXCEPT ![c] = 0]
    /\ UNCHANGED <<idents, keys, now, self, layer, store, wake, result, stolen, lapsed, unlocks, saved>>

\* mem = Client(self.servers); key = tile_key(...); due = _time() + timeout
\* (a caller starts one lock call per tick, early enough to end by MaxTime)
LockStart(c, t) ==
    /\ pc[c] = "idle"
    /\ open[c] < MaxLeaks
    /\ ~began[c]
    /\ now + layer.stale_lock_timeout + Poll <= MaxTime
    /\ open' = [open EXCEPT ![c] = @ + 1]
    /\ closes' = [closes EXCEPT ![c] = 0]
    /\ arg' = [arg EXCEPT ![c] = t]
    /\ due' = [due EXCEPT ![c] = now + layer.stale_lock_timeout]
    /\ pc' = [pc EXCEPT ![c] = "test"]
    /\ via' = [via EXCEPT ![c] = "none"]
    /\ adds' = [adds EXCEPT ![c] = 0]
    /\ took' = [took EXCEPT ![c] = 0]
    /\ race' = IF Live(store, LockKeyOf(t), now) THEN race \ {c} ELSE race \cup {c}
    /\ handoff' = None
    /\ heir' = None
    /\ began' = [began EXCEPT ![c] = TRUE]
    /\ sets' = [sets EXCEPT ![c] = 0]
    /\ UNCHANGED <<idents, keys, now, self, layer, store, wake, result, stolen, lapsed, unlocks, saved>>

\* LockTest that stops polling a sleep early: while _time() + .2 <= due
LockTest_NoLastPoll(c) ==
    /\ \/ pc[c] = "test"
       \/ pc[c] = "sleep" /\ now >= wake[c]
    /\ pc' = [pc EXCEPT ![c] = IF now + Poll <= due[c] THEN "add" ELSE "set"]
    /\ wake' = [wake EXCEPT ![c] = 0]
    /\ UNCHANGED <<sets, idents, keys, now, self, layer, began, store, arg, due, open, closes, via, adds,
                   took, result, stolen, lapsed, unlocks, race, handoff, heir, saved>>

\* LockTest with the deadline included: while _time() <= due
LockTest_Inclusive(c) ==
    /\ \/ pc[c] = "test"
       \/ pc[c] = "sleep" /\ now >= wake[c]
    /\ pc' = [pc EXCEPT ![c] = IF now <= due[c] THEN "add" ELSE "set"]
    /\ wake' = [wake EXCEPT ![c] = 0]
    /\ UNCHANGED <<sets, idents, keys, now, self, layer, began, store, arg, due, open, closes, via, adds,
                   took, result, stolen, lapsed, unlocks, race, handoff, heir, saved>>

\* LockTest without the deadline: while True
LockTest_NoDeadline(c) ==
    /\ \/ pc[c] = "test"
       \/ pc[c] = "sleep" /\ now >= wake[c]
    /\ pc' = [pc EXCEPT ![c] = "add"]
    /\ wake' = [wake EXCEPT ![c] = 0]
    /\ UNCHANGED <<sets, idents, keys, now, self, layer, began, store, arg, due, open, closes, via, adds,
                   took, result, stolen, lapsed, unlocks, race, handoff, heir, saved>>

\* while _time() < due: ... (after the sleep, when there was one)
LockTest(c) ==
    /\ \/ pc[c] = "test"
       \/ pc[c] = "sleep" /\ now >= wake[c]
    /\ pc' = [pc EXCEPT ![c] = IF now < due[c] THEN "add" ELSE "set"]
    /\ wake' = [wake EXCEPT ![c] = 0]
    /\ UNCHANGED <<sets, idents, keys, now, self, layer, began, store, arg, due, open, closes, via, adds,
                   took, result, stolen, lapsed, unlocks, race, handoff, heir, saved>>

\* LockAdd that steals as soon as an add is refused: no sleep, no clock test
LockAdd_StealOnFail(c) ==
    /\ pc[c] = "add"
    /\ adds' = [adds EXCEPT ![c] = @ + 1]
    /\ store' = mem_add(store, LockKeyOf(arg[c]), LockedValue,
                        layer.stale_lock_timeout, now)
    /\ IF add_ok(store, LockKeyOf(arg[c]), now)
       THEN LockReturn(c, "add")
       ELSE /\ pc' = [pc EXCEPT ![c] = "set"]
            /\ UNCHANGED <<wake, due, open, closes, via, took, handoff, heir>>
    /\ UNCHANGED <<sets, idents, keys, now, self, layer, began, arg, result, stolen, lapsed, unlocks, race, saved>>

\* LockAdd that sleeps two poll intervals: _sleep(.4)
LockAdd_LongSleep(c) ==
    /\ pc[c] = "add"
    /\ adds' = [adds EXCEPT ![c] = @ + 1]
    /\ store' = mem_add(store, LockKeyOf(arg[c]), LockedValue,
                        layer.stale_lock_timeout, now)
    /\ IF add_ok(store, LockKeyOf(arg[c]), now)
       THEN LockReturn(c, "add")
       ELSE /\ pc' = [pc EXCEPT ![c] = "sleep"]
            /\ wake' = [wake EXCEPT ![c] = now + Poll + Poll]
            /\ UNCHANGED <<due, open, closes, via, took, handoff, heir>>
    /\ UNCHANGED <<sets, idents, keys, now, self, layer, began, arg, result, stolen, lapsed, unlocks, race, saved>>

\* LockAdd on the tile's key instead of its lock key: mem.add(key, ...)
LockAdd_TileKey(c) ==
    /\ pc[c] = "add"
    /\ adds' = [adds EXCEPT ![c] = @ + 1]
    /\ store' = mem_add(store, KeyOf(arg[c]), LockedValue,
                        layer.stale_lock_timeout, now)
    /\ IF add_ok(store, KeyOf(arg[c]), now)
       THEN LockReturn(c, "add")
       ELSE /\ pc' = [pc EXCEPT ![c] = "sleep"]
            /\ wake' = [wake EXCEPT ![c] = now + Poll]
            /\ UNCHANGED <<due, open, closes, via, took, handoff, heir>>
    /\ UNCHANGED <<sets, idents, keys, now, self, layer, began, arg, result, stolen, lapsed, unlocks, race, saved>>

\* LockAdd that gives no time to live: mem.add(key+'-lock', 'locked.')
LockAdd_NoTimeout(c) ==
    /\ pc[c] = "add"
    /\ adds' = [adds EXCEPT ![c] = @ + 1]
    /\ store' = mem_add(store, LockKeyOf(arg[c]), LockedValue, 0, now)
    /\ IF add_ok(store, LockKeyOf(arg[c]), now)
       THEN LockReturn(c, "add")
       ELSE /\ pc' = [pc EXCEPT ![c] = "sleep"]
            /\ wake' = [wake EXCEPT ![c] = now + Poll]
            /\ UNCHANGED <<due, open, closes, via, took, handoff, heir>>
    /\ UNCHANGED <<sets, idents, keys, now, self, layer, began, arg, result, stolen, lapsed, unlocks, race, saved>>

\* LockAdd that does not look at what mem.add answered: mem.add(...); return
LockAdd_NoCheck(c) ==
    /\ pc[c] = "add"
    /\ adds' = [adds EXCEPT ![c] = @ + 1]
    /\ store' = mem_add(store, LockKeyOf(arg[c]), LockedValue,
                        layer.stale_lock_timeout, now)
    /\ LockReturn(c, "add")
    /\ UNCHANGED <<sets, idents, keys, now, self, layer, began, arg, result, stolen, lapsed, unlocks, race, saved>>

\* if mem.add(key+'-lock', 'locked.', timeout): return -- else _sleep(.2)
LockAdd(c) ==
    /\ pc[c] = "add"
    /\ adds' = [adds EXCEPT ![c] = @ + 1]
    /\ store' = mem_add(store, LockKeyOf(arg[c]), LockedValue,
                        layer.stale_lock_timeout, now)
    /\ IF add_ok(store, LockKeyOf(arg[c]), now)
       THEN LockReturn(c, "add")
       ELSE /\ pc' = [pc EXCEPT ![c] = "sleep"]
            /\ wake' = [wake EXCEPT ![c] = now + Poll]
            /\ UNCHANGED <<due, open, closes, via, took, handoff, heir>>
    /\ UNCHANGED <<sets, idents, keys, now, self, layer, began, arg, result, stolen, lapsed, unlocks, race, saved>>

\* LockSet through mem.add: a Lock Entry that is there is kept as it is
LockSet_Add(c) ==
    /\ pc[c] = "set"
    /\ store' = mem_add(store, LockKeyOf(arg[c]), LockedValue,
                        layer.stale_lock_timeout, now)
    /\ stolen' = TRUE
    /\ LockReturn(c, "set")
    /\ sets' = [sets EXCEPT ![c] = @ + 1]
    /\ UNCHANGED <<idents, keys, now, self, layer, began, arg, adds, result, lapsed, unlocks, race, saved>>

\* mem.set(key+'-lock', 'locked.', timeout); return
LockSet(c) ==
    /\ pc[c] = "set"
    /\ store' = mem_set(store, LockKeyOf(arg[c]), LockedValue,
                        layer.stale_lock_timeout, now)
    /\ stolen' = TRUE
    /\ LockReturn(c, "set")
    /\ sets' = [sets EXCEPT ![c] = @ + 1]
    /\ UNCHANGED <<idents, keys, now, self, layer, began, arg, adds, result, lapsed, unlocks, race, saved>>

\* LockRaise without try/finally: the error leaves lock before disconnect_all
LockRaise_NoFinally(c) ==
    /\ pc[c] \in {"add", "set"}
    /\ pc' = [pc EXCEPT ![c] = "idle"]
    /\ via' = [via EXCEPT ![c] = "raised"]
    /\ due' = [due EXCEPT ![c] = 0]
    /\ race' = race \ {c}
    /\ UNCHANGED <<sets, idents, keys, now, self, layer, began, store, arg, wake, open, closes, adds, took,
                   result, stolen, lapsed, unlocks, handoff, heir, saved>>

\* mem.add or mem.set raises: "finally" runs and the error goes to the caller
LockRaise(c) ==
    /\ pc[c] \in {"add", "set"}
    /\ Disconnect(c)
    /\ pc' = [pc EXCEPT ![c] = "idle"]
    /\ via' = [via EXCEPT ![c] = "raised"]
    /\ due' = [due EXCEPT ![c] = 0]
    /\ race' = race \ {c}
    /\ UNCHANGED <<sets, idents, keys, now, self, layer, began, store, arg, wake, adds, took, result,
                   stolen, lapsed, unlocks, handoff, heir, saved>>

\* ---------------------------------------------------------- Cache.unlock

\* A caller that is not inside lock starts another operation.
Free(c) == pc[c] \in {"idle", "held"} /\ open[c] < MaxLeaks

\* The next clock test of a caller inside lock comes before its deadline.
PollsAgain(w) ==
    \/ pc[w] = "add"
    \/ pc[w] = "test" /\ now < due[w]
    \/ pc[w] = "sleep" /\ wake[w] < due[w]

\* What the unlock of tile t by caller c starts: a hand-off, when c is the
\* only holder, its Lock Entry is there, callers wait, and none of them has
\* reached its deadline -- "polls" when each of them will test the clock
\* again before its deadline, "deadline" when some will not.
HandoffOf(c, t) ==
    LET waiters == {w \in Callers : Waits(w, t)}
    IN  IF /\ Holds(c, t)
           /\ \A h \in Callers \ {c} : ~Holds(h, t)
           /\ Live(store, LockKeyOf(t), now)
           /\ waiters /= {}
           /\ \A w \in waiters : now < due[w]
        THEN <<now, IF \A w \in waiters : PollsAgain(w) THEN "polls" ELSE "deadline">>
        ELSE None

\* Unlock that deletes the Lock Entry only for the caller that holds the lock
Unlock_IfHolder(c, t) ==
    /\ Free(c)
    /\ store' = IF Holds(c, t) THEN mem_delete(store, LockKeyOf(t)) ELSE store
    /\ pc' = [pc EXCEPT ![c] = IF Holds(c, t) THEN "idle" ELSE @]
    /\ via' = [via EXCEPT ![c] = IF Holds(c, t) THEN "none" ELSE @]
    /\ adds' = [adds EXCEPT ![c] = IF Holds(c, t) THEN 0 ELSE @]
    /\ took' = [took EXCEPT ![c] = IF Holds(c, t) THEN 0 ELSE @]
    /\ result' = None
    /\ unlocks' = IF unlocks = "rogue" \/ ~Holds(c, t) THEN "rogue" ELSE "holder"
    /\ race' = IF Live(store, LockKeyOf(t), now)
               THEN {w \in race : arg[w] /= t}
               ELSE IF Holds(c, t) THEN race \ {c} ELSE race
    /\ handoff' = HandoffOf(c, t)
    /\ heir' = None
    /\ sets' = [sets EXCEPT ![c] = IF Holds(c, t) THEN 0 ELSE @]
    /\ UNCHANGED <<idents, keys, now, self, layer, began, arg, due, wake, open, closes, stolen,
                   lapsed, saved>>

\* Unlock that deletes the tile's key instead of its lock key
Unlock_TileKey(c, t) ==
    /\ Free(c)
    /\ store' = mem_delete(store, KeyOf(t))
    /\ pc' = [pc EXCEPT ![c] = IF Holds(c, t) THEN "idle" ELSE @]
    /\ via' = [via EXCEPT ![c] = IF Holds(c, t) THEN "none" ELSE @]
    /\ adds' = [adds EXCEPT ![c] = IF Holds(c, t) THEN 0 ELSE @]
    /\ took' = [took EXCEPT ![c] = IF Holds(c, t) THEN 0 ELSE @]
    /\ result' = None
    /\ unlocks' = IF unlocks = "rogue" \/ ~Holds(c, t) THEN "rogue" ELSE "holder"
    /\ race' = IF Live(store, LockKeyOf(t), now)
               THEN {w \in race : arg[w] /= t}
               ELSE IF Holds(c, t) THEN race \ {c} ELSE race
    /\ handoff' = HandoffOf(c, t)
    /\ heir' = None
    /\ sets' = [sets EXCEPT ![c] = IF Holds(c, t) THEN 0 ELSE @]
    /\ UNCHANGED <<idents, keys, now, self, layer, began, arg, due, wake, open, closes, stolen,
                   lapsed, saved>>

\* mem = Client(...); mem.delete(key+'-lock'); mem.disconnect_all()
Unlock(c, t) ==
    /\ Free(c)
    /\ store' = mem_delete(store, LockKeyOf(t))
    /\ pc' = [pc EXCEPT ![c] = IF Holds(c, t) THEN "idle" ELSE @]
    /\ via' = [via EXCEPT ![c] = IF Holds(c, t) THEN "none" ELSE @]
    /\ adds' = [adds EXCEPT ![c] = IF Holds(c, t) THEN 0 ELSE @]
    /\ took' = [took EXCEPT ![c] = IF Holds(c, t) THEN 0 ELSE @]
    /\ result' = None
    /\ unlocks' = IF unlocks = "rogue" \/ ~Holds(c, t) THEN "rogue" ELSE "holder"
    /\ race' = IF Live(store, LockKeyOf(t), now)
               THEN {w \in race : arg[w] /= t}
               ELSE IF Holds(c, t) THEN race \ {c} ELSE race
    /\ handoff' = HandoffOf(c, t)
    /\ heir' = None
    /\ sets' = [sets EXCEPT ![c] = IF Holds(c, t) THEN 0 ELSE @]
    /\ UNCHANGED <<idents, keys, now, self, layer, began, arg, due, wake, open, closes, stolen,
                   lapsed, saved>>

\* ------------------------------------- Cache.remove, Cache.read, Cache.save

\* What "saved" keeps of a save that a remove has undone.
Removed == <<"removed">>

\* What "saved" keeps of a save whose cache_lifespan has passed.
Expired == <<"expired">>

\* layer.cache_lifespan or 0
LifespanOr0(l) ==
    IF l.cache_lifespan = None \/ l.cache_lifespan = <<0>> THEN 0
    ELSE l.cache_lifespan[1]

\* Remove that deletes the tile's lock key instead of its key
Remove_LockKey(c, t) ==
    /\ Free(c)
    /\ store' = mem_delete(store, LockKeyOf(t))
    /\ result' = None
    /\ saved' = [saved EXCEPT ![KeyOf(t)] = Removed]
    /\ UNCHANGED <<sets, idents, keys, now, self, layer, began, pc, arg, due, wake, open, closes, via,
                   adds, took,
                   stolen, lapsed, unlocks, race, handoff, heir>>

\* mem = Client(...); mem.delete(key); mem.disconnect_all()
Remove(c, t) ==
    /\ Free(c)
    /\ store' = mem_delete(store, KeyOf(t))
    /\ result' = None
    /\ saved' = [saved EXCEPT ![KeyOf(t)] = Removed]
    /\ UNCHANGED <<sets, idents, keys, now, self, layer, began, pc, arg, due, wake, open, closes, via,
                   adds, took,
                   stolen, lapsed, unlocks, race, handoff, heir>>

\* mem = Client(...); value = mem.get(key); mem.disconnect_all(); return value
Read(c, t) ==
    /\ Free(c)
    /\ result' = <<KeyOf(t), mem_get(store, KeyOf(t), now)>>
    /\ UNCHANGED <<sets, idents, keys, now, self, layer, began, store, pc, arg, due, wake, open, closes,
                   via, adds,
                   took, stolen, lapsed, unlocks, race, handoff, heir, saved>>

\* Save through mem.add: an entry that is there is kept
Save_NoOverwrite(c, body, t) ==
    /\ Free(c)
    /\ store' = mem_add(store, KeyOf(t), body, LifespanOr0(layer), now)
    /\ result' = None
    /\ saved' = [saved EXCEPT ![KeyOf(t)] = <<body, now>>]
    /\ UNCHANGED <<sets, idents, keys, now, self, layer, began, pc, arg, due, wake, open, closes, via,
                   adds, took,
                   stolen, lapsed, unlocks, race, handoff, heir>>

\* mem = Client(...); mem.set(key, body, layer.cache_lifespan or 0);
\* mem.disconnect_all()
Save(c, body, t) ==
    /\ Free(c)
    /\ store' = mem_set(store, KeyOf(t), body, LifespanOr0(layer), now)
    /\ result' = None
    /\ saved' = [saved EXCEPT ![KeyOf(t)] = <<body, now>>]
    /\ UNCHANGED <<sets, idents, keys, now, self, layer, began, pc, arg, due, wake, open, closes, via,
                   adds, took,
                   stolen, lapsed, unlocks, race, handoff, heir>>

\* mem = Client(...); then mem.delete, mem.get or mem.set raises, whatever the
\* tile: the statements after it, disconnect_all among them, are not reached
StoreRaise(c) ==
    /\ Free(c)
    /\ open' = [open EXCEPT ![c] = @ + 1]
    /\ result' = None
    /\ UNCHANGED <<sets, idents, keys, now, self, layer, began, store, pc, arg, due, wake, closes, via,
                   adds, took,
                   stolen, lapsed, unlocks, race, handoff, heir, saved>>

UnlockRaise(c) == StoreRaise(c)
RemoveRaise(c) == StoreRaise(c)
ReadRaise(c) == StoreRaise(c)
SaveRaise(c) == StoreRaise(c)

\* ------------------------------------------------------------------ time

\* The save sv (<<body, tick>>) was made cache_lifespan or more ticks before t.
Outlived(sv, t) ==
    /\ Len(sv) = 2
    /\ layer.cache_lifespan \notin {None, <<0>>}
    /\ t >= sv[2] + layer.cache_lifespan[1]

\* The Lock Entry of tile u is there now and gone at t.
RunsOut(u, t) ==
    Live(store, LockKeyOf(u), now) /\ ~Live(store, LockKeyOf(u), t)

\* The clock moves on one tick; the store drops what has run out.
Tick ==
    /\ now < MaxTime
    /\ now' = now + 1
    /\ store' = Purge(store, now + 1)
    /\ saved' = [k \in DOMAIN saved |->
                    IF Outlived(saved[k], now + 1) THEN Expired ELSE saved[k]]
    /\ lapsed' = (lapsed \/ \E c \in Callers : pc[c] = "held" /\ RunsOut(arg[c], now + 1))
    /\ race' = {w \in race : ~RunsOut(arg[w], now + 1)}
    /\ began' = [c \in Callers |-> FALSE]
    /\ UNCHANGED <<sets, idents, keys, self, layer, pc, arg, due, wake, open, closes, via, adds,
                   took, result, stolen, unlocks, handoff, heir>>

\* The clock of the tile operations, which stops at MaxTileTime.
TickTile == now < MaxTileTime /\ Tick

\* A caller inside lock has a step to take now (code runs in no time).
Busy(c) ==
    \/ pc[c] \in {"test", "add", "set"}
    \/ pc[c] = "sleep" /\ now >= wake[c]

\* The clock moves on only when no caller inside lock has a step to take.
TickTimed == (\A c \in Callers : ~Busy(c)) /\ Tick

\* ------------------------------------------------------- specifications

LockStep(c) == LockTest(c) \/ LockAdd(c) \/ LockSet(c)

\* Two callers are enough for a holder and a waiter.
Pair == {"A", "B"}

\* The lock protocol on one tile: callers that run at any speed, a store
\* that can fail, unlock by any caller.
Next ==
    \/ \E c \in Pair : LockStart(c, Tile1)
    \/ \E c \in Pair : LockStep(c)
    \/ \E c \in Pair : LockRaise(c)
    \/ \E c \in Pair : Unlock(c, Tile1)
    \/ Tick

InitLock == Init /\ layer.cache_lifespan = None

Spec == InitLock /\ [][Next]_vars

\* The lock protocol with code and store calls that take no time: the clock
\* stands still while a caller inside lock has a step to take.  Every store
\* call returns, and a caller unlocks what it holds.
NextTimed ==
    \/ \E c \in Callers : LockStart(c, Tile1)
    \/ \E c \in Callers : LockStep(c)
    \/ \E c \in Callers : Holds(c, Tile1) /\ Unlock(c, Tile1)
    \/ TickTimed

SpecTimed == InitLock /\ [][NextTimed]_vars

\* The same, where the clock and every caller inside lock keep going.
SpecFair ==
    /\ SpecTimed
    /\ WF_vars(TickTimed)
    /\ \A c \in Callers : WF_vars(LockStep(c))

\* The tile operations and unlock of two callers on two tiles, with a store
\* that can fail.
NextTile ==
    \/ \E c \in Pair, t \in Tiles : Read(c, t)
    \/ \E c \in Pair, t \in Tiles, body \in Bodies : Save(c, body, t)
    \/ \E c \in Pair, t \in Tiles : Remove(c, t)
    \/ \E c \in Pair, t \in Tiles : Unlock(c, t)
    \/ \E c \in Pair : ReadRaise(c)
    \/ \E c \in Pair : SaveRaise(c)
    \/ \E c \in Pair : RemoveRaise(c)
    \/ \E c \in Pair : UnlockRaise(c)
    \/ TickTile

InitTile == Init /\ layer.stale_lock_timeout = Poll

SpecTile == InitTile /\ [][NextTile]_vars

\* The callers go on with the Cache instance of another revision, when none
\* of them is inside lock.
Revise(r) ==
    /\ r /= self.revision
    /\ \A c \in Callers : pc[c] \in {"idle", "held"}
    /\ self' = CacheOf(r)
    /\ UNCHANGED <<sets, idents, keys, now, layer, store, pc, arg, due, wake, open,
                   closes, via, adds, took, result, stolen, lapsed, unlocks, race,
                   handoff, heir, began, saved>>

\* The clock up to the deadline of a lock call that began at 0.
TickLock == now < layer.stale_lock_timeout /\ Tick

\* One layer, with a stale_lock_timeout of one poll interval.
PollLayers ==
    {l \in Layers : l.stale_lock_timeout = Poll /\ l.cache_lifespan = None}

\* Every operation on three tiles, two of them with one key, through one
\* Cache instance: a caller that locks and unlocks, a caller that reads,
\* saves and removes; every store call returns.
NextFrame ==
    \/ \E t \in AllTiles : LockStart("A", t)
    \/ LockStep("A")
    \/ \E t \in AllTiles : Unlock("A", t)
    \/ \E t \in AllTiles : Read("B", t)
    \/ \E t \in AllTiles, body \in Bodies : Save("B", body, t)
    \/ \E t \in AllTiles : Remove("B", t)
    \/ TickLock

InitFrame == InitWith(PollLayers, KeysFor(self, layer), {None})

SpecFrame == InitFrame /\ [][NextFrame]_vars

\* Every operation on one tile through the Cache instances of two revisions.
NextRev ==
    \/ LockStart("A", Tile1)
    \/ LockStep("A")
    \/ Unlock("A", Tile1)
    \/ Read("B", Tile1)
    \/ \E body \in Bodies : Save("B", body, Tile1)
    \/ Remove("B", Tile1)
    \/ \E r \in Revisions : Revise(r)
    \/ TickLock

InitRev == InitWith(PollLayers, KeysOfAll(layer), {None})

SpecRev == InitRev /\ [][NextRev]_vars

\* key = tile_key(layer, coord, auth, format, self.revision, self.key_prefix),
\* as every Cache method starts, for two Tile Identities
DeriveKeys ==
    /\ idents /= None
    /\ keys = None
    /\ keys' = [i \in DOMAIN idents |->
                  tile_key(idents[i].layer, idents[i].coord, idents[i].auth,
                           idents[i].format, self.revision, self.key_prefix)]
    /\ UNCHANGED <<sets, idents, now, self, layer, store, pc, arg, due, wake, open,
                   closes, via, adds, took, result, stolen, lapsed, unlocks, race,
                   handoff, heir, began, saved>>

\* tile_key on every pair of Tile Identities, under one Cache instance.
InitKey ==
    InitWith({l \in Layers : l.stale_lock_timeout = 0 /\ l.cache_lifespan = None},
             KeysFor(self, layer), Identities \X Identities)

NextKey == DeriveKeys

SpecKey == InitKey /\ [][NextKey]_vars


\* ---------------------------------------------------------------- claims

\* At most one caller holds the lock of tile t.
Mutex(t) == Cardinality({c \in Callers : Holds(c, t)}) <= 1

\* C1 as stated: while no lock call has taken the deadline mem.set, and every
\* unlock came from a caller that held the lock, at most one caller is between
\* the return of its lock call and its unlock.
C1_MutexUnlessSteal ==
    (~stolen /\ unlocks /= "rogue") => \A t \in Tiles : Mutex(t)

\* C1 amended: while no lock call has taken the deadline mem.set, no Lock
\* Entry has expired under a caller that held the lock, and every unlock came
\* from a caller that held the lock, at most one caller holds the lock.
C1_MutexUnlessStealOrExpiry ==
    (~stolen /\ ~lapsed /\ unlocks /= "rogue") => \A t \in Tiles : Mutex(t)

\* C1's case: one caller holds the lock, another has had its add refused and
\* sleeps, and nothing has been stolen or has expired.
C1_Witness ==
    /\ ~stolen /\ ~lapsed /\ unlocks /= "rogue"
    /\ \E a, b \in Callers : Holds(a, Tile1) /\ pc[b] = "sleep" /\ adds[b] >= 1

\* stale_lock_timeout rounded up to whole poll intervals.
PollsCeil == Poll * ((layer.stale_lock_timeout + Poll - 1) \div Poll)

\* C2 as stated: when no caller has unlocked, a lock call returns no later
\* than stale_lock_timeout ticks after it started.
C2_ReturnsWithinTimeout ==
    \A c \in Callers :
        (pc[c] = "held" /\ unlocks = "none") => took[c] <= layer.stale_lock_timeout

\* C2 amended: when no caller has unlocked, a lock call returns no later than
\* stale_lock_timeout rounded up to the next multiple of the poll interval.
C2_ReturnsWithinPolls ==
    \A c \in Callers :
        (pc[c] = "held" /\ unlocks = "none") => took[c] <= PollsCeil

\* C2's case: a holder that never unlocked, and a waiter that came back by the
\* steal later than stale_lock_timeout after it started.
C2_Witness ==
    /\ unlocks = "none"
    /\ \E h, c \in Callers :
          /\ h /= c /\ Holds(h, Tile1) /\ via[h] = "add"
          /\ Holds(c, Tile1) /\ via[c] = "set"
          /\ took[c] > layer.stale_lock_timeout /\ took[c] = PollsCeil

\* C3: every lock call that has started returns, whatever the others do.
C3_LockReturns ==
    \A c \in Callers : (pc[c] \in {"test", "add", "sleep", "set"}) ~> (pc[c] = "held")

\* C3's case: a holder that never unlocked and a waiter whose lock call has
\* returned all the same, after refused adds.
C3_Witness ==
    \E h, c \in Callers :
        /\ h /= c /\ unlocks = "none"
        /\ Holds(h, Tile1) /\ Holds(c, Tile1) /\ adds[c] >= 2

\* Every caller that is not idle is in the race, and they are two or more.
Racing ==
    /\ Cardinality(race) >= 2
    /\ \A c \in Callers : pc[c] /= "idle" => c \in race

\* Every caller of the race has made its first store call.
RaceSettled == \A c \in race : pc[c] \in {"sleep", "held"}

\* One caller of the race came back at once by its add, the others sleep
\* after a refused add.
OneWinner ==
    \E w \in race :
        /\ pc[w] = "held" /\ via[w] = "add" /\ took[w] = 0
        /\ \A c \in race \ {w} : pc[c] = "sleep" /\ adds[c] >= 1

\* C4 as stated: callers that call lock together on an UNLOCKED key: one add
\* succeeds and its caller returns at once, the others have not returned
\* while the Lock Entry is neither deleted nor expired.
C4_OneWinner == (Racing /\ RaceSettled) => OneWinner

\* C4 amended: the same for a stale_lock_timeout above zero.
C4_OneWinnerPositiveTimeout ==
    (Racing /\ RaceSettled /\ layer.stale_lock_timeout > 0) => OneWinner

\* C4's case: three callers raced for an UNLOCKED key and each has made its
\* first store call.
C4_Witness ==
    /\ Racing /\ RaceSettled /\ race = Callers
    /\ layer.stale_lock_timeout > 0

\* C5 as stated: after the holder's unlock before every waiter's deadline,
\* the next caller to get the lock gets it by a successful add within one
\* poll interval of the unlock.
C5_HandoffByAdd ==
    heir /= None => (heir[2] = "add" /\ heir[3] <= Poll)

\* C5 amended: the same when, at the unlock, every waiter has a clock test
\* to come before its deadline.
C5_HandoffByAddWhenPollsRemain ==
    (heir /= None /\ heir[1] = "polls") => (heir[2] = "add" /\ heir[3] <= Poll)

\* C5's case: the holder unlocked right after two waiters' adds were refused;
\* one waiter got the lock a poll interval later, the other sleeps on.
C5_Witness ==
    /\ heir = <<"polls", "add", Poll>>
    /\ \E a, b \in Callers :
          a /= b /\ Holds(a, Tile1) /\ pc[b] = "sleep" /\ adds[b] >= 2

\* C6: a lock call that has returned or raised has closed its session, by
\* one disconnect_all.
C6_LockClosesSession ==
    \A c \in Callers :
        (pc[c] = "held" \/ (pc[c] = "idle" /\ via[c] = "raised"))
            => (open[c] = 0 /\ closes[c] = 1)

\* C6's case: one lock call came back by the steal, another raised from a
\* store call after a refused add.
C6_Witness ==
    \E a, b \in Callers :
        /\ pc[a] = "held" /\ via[a] = "set"
        /\ pc[b] = "idle" /\ via[b] = "raised" /\ adds[b] >= 1 /\ open[b] = 0

\* C7: no caller has a session open when none of its operations is running.
C7_NoSessionLeft ==
    \A c \in Callers : pc[c] \in {"idle", "held"} => open[c] = 0

C10_UnlockDeletes ==
    [][\A c \in Pair, t \in Tiles :
          Unlock(c, t) =>
              /\ add_ok(store', LockKeyOf(t), now')
              /\ (store[LockKeyOf(t)] = <<>> => store' = store)]_vars

\* C10's case: a caller that did not hold the lock unlocked it under its
\* holder, and the next add succeeded: two callers hold, nothing was stolen.
C10_Witness ==
    /\ unlocks = "rogue" /\ ~stolen /\ ~lapsed
    /\ \E a, b \in Callers :
          a /= b /\ Holds(a, Tile1) /\ Holds(b, Tile1) /\ via[b] = "add"

\* The set of the ids of an auth list.
IdSet(auth) == {auth[i] : i \in DOMAIN auth}

\* Two Tile Identities differ in a field: layer name, zoom, column, row,
\* format, or the set of auth ids.
Differ(a, b) ==
    \/ a.layer.name /= b.layer.name
    \/ a.coord /= b.coord
    \/ a.format /= b.format
    \/ IdSet(a.auth) /= IdSet(b.auth)

\* C11: two Tile Identities that differ in a field get different keys.
C11_NoCollision ==
    (keys /= None /\ Differ(idents[1], idents[2])) => keys[1] /= keys[2]

\* Two Tile Identities are the same but for the order of their auth ids.
SameButOrder(a, b) ==
    /\ a.layer.name = b.layer.name
    /\ a.coord = b.coord
    /\ a.format = b.format
    /\ IdSet(a.auth) = IdSet(b.auth)

\* The length of a key that has no auth segment:
\* key_prefix/rev/name/zoom/column/row.format
PlainLen(a) ==
    Len(self.key_prefix) + 1 + Len(ToString(self.revision)) + 1
      + Len(a.layer.name) + 1 + Len(ToString(a.coord.zoom)) + 1
      + Len(ToString(a.coord.column)) + 1 + Len(ToString(a.coord.row)) + 1
      + Len(a.format)

\* C12: two Tile Identities that are the same but for the order of their
\* auth ids get the same key, and the key of a Tile Identity without auth ids
\* has no auth segment.
C12_OrderIndependent ==
    keys /= None =>
        /\ SameButOrder(idents[1], idents[2]) => keys[1] = keys[2]
        /\ \A i \in DOMAIN idents :
              Len(idents[i].auth) = 0 => Len(keys[i]) = PlainLen(idents[i])

\* C12's case: three auth ids, a number among strings, given in two orders,
\* and one key for both.
C12_Witness ==
    /\ keys /= None
    /\ SameButOrder(idents[1], idents[2])
    /\ idents[1].auth /= idents[2].auth
    /\ Len(idents[1].auth) = Cardinality(AuthIds)
    /\ idents[1].auth[1] /= idents[2].auth[1]
    /\ keys[1] = keys[2]

\* The key of tile t through the Cache instance of revision r.
RevKey(r, t) == tile_key(layer, t.coord, t.auth, t.format, r, self.key_prefix)

\* The keys of the Tile Entries and Lock Entries of the other revisions.
OtherRevKeys ==
    UNION {{RevKey(r, t), RevKey(r, t) \o "-lock"} :
             r \in Revisions \ {self.revision}, t \in AllTiles}

\* C13: the keys of a Tile Identity under two revisions differ; an operation
\* through one revision leaves the entries of the other as they are; a read
\* gives None when nothing is saved under its own revision; a lock call's
\* add is refused only by a Lock Entry of its own revision; going on with
\* another revision leaves the store as it is.
C13_RevisionsDisjoint ==
    [][/\ \A r1, r2 \in Revisions, t \in AllTiles :
              r1 /= r2 => RevKey(r1, t) /= RevKey(r2, t)
       /\ (self' = self /\ now' = now) =>
              \A k \in OtherRevKeys : store'[k] = store[k]
       /\ (Read("B", Tile1) /\ saved[RevKey(self.revision, Tile1)] \in {None, Removed})
              => result'[2] = None
       /\ (LockAdd("A") /\ pc'["A"] = "sleep")
              => Live(store, RevKey(self.revision, arg["A"]) \o "-lock", now)
       /\ self' /= self => store' = store]_vars

\* C13's case: under another revision than the one a tile was saved and
\* locked under, with both entries still in the store, a read gave None and
\* a lock call came back by its add.
C13_Witness ==
    \E r \in Revisions \ {self.revision} :
        /\ Len(saved[RevKey(r, Tile1)]) = 2
        /\ mem_get(store, RevKey(r, Tile1), now) /= None
        /\ Live(store, RevKey(r, Tile1) \o "-lock", now)
        /\ result = <<RevKey(self.revision, Tile1), None>>
        /\ Holds("A", Tile1) /\ via["A"] = "add"
        /\ Live(store, RevKey(self.revision, Tile1) \o "-lock", now)

\* C14: a lock call comes to its mem.set only at or past its deadline, and
\* makes one mem.set at most; a lock call that returned before its deadline
\* returned by its add, and one that returned by mem.set returned at or past
\* its deadline.
C14_StealOnlyAtDeadline ==
    \A c \in Callers :
        /\ pc[c] = "set" => now >= due[c]
        /\ sets[c] <= 1
        /\ (pc[c] = "held" /\ took[c] < layer.stale_lock_timeout)
              => (via[c] = "add" /\ sets[c] = 0)
        /\ (pc[c] = "held" /\ sets[c] = 1)
              => (via[c] = "set" /\ took[c] >= layer.stale_lock_timeout)

\* C14's case: a waiter whose adds were refused up to its deadline and that
\* came back by one mem.set, under a holder that had come back by its add
\* before its own deadline.
C14_Witness ==
    \E h, c \in Callers :
        /\ h /= c /\ layer.stale_lock_timeout > Poll
        /\ Holds(h, Tile1) /\ via[h] = "add" /\ sets[h] = 0
        /\ took[h] > 0 /\ took[h] < layer.stale_lock_timeout
        /\ Holds(c, Tile1) /\ via[c] = "set" /\ sets[c] = 1 /\ adds[c] >= 2

\* C15 as stated: whenever a lock call executes its mem.set, a Lock Entry of
\* its key is in the store.
C15_StealFromLocked ==
    [][\A c \in Callers :
          LockSet(c) => Live(store, LockKeyOf(arg[c]), now)]_vars

\* C15 amended: whenever a lock call executes its mem.set, the Lock Entry of
\* its key is in the store afterwards, newly written; if one was there
\* before, another caller holds the lock.
C15_StealLeavesLocked ==
    [][\A c \in Callers :
          LockSet(c) =>
              /\ store'[LockKeyOf(arg[c])] =
                    <<LockedValue, Expiry(layer.stale_lock_timeout, now)>>
              /\ Live(store', LockKeyOf(arg[c]), now)
              /\ Live(store, LockKeyOf(arg[c]), now)
                    => \E h \in Callers \ {c} : Holds(h, arg[c])]_vars

\* C15's case: nobody has unlocked, the Lock Entry of the one holder expired
\* under it, and the one waiter came back by mem.set after its last sleep:
\* its mem.set wrote the Lock Entry of an UNLOCKED key.
C15_Witness ==
    \E h, c, i \in Callers :
        /\ h /= c /\ i /= h /\ i /= c
        /\ unlocks = "none" /\ lapsed /\ pc[i] = "idle"
        /\ Holds(h, Tile1) /\ via[h] = "add"
        /\ Holds(c, Tile1) /\ via[c] = "set" /\ adds[c] >= 1
        /\ Live(store, LockKeyOf(Tile1), now)

\* C16 as stated: a lock call that is at its mem.set, or came back by it,
\* has had an add of its own refused, whatever the stale_lock_timeout.
C16_AddBeforeSteal ==
    \A c \in Callers :
        (pc[c] = "set" \/ (pc[c] = "held" /\ via[c] = "set")) => adds[c] >= 1

\* C16 amended: the same for a stale_lock_timeout above zero.
C16_AddBeforeStealPositiveTimeout ==
    \A c \in Callers :
        (/\ layer.stale_lock_timeout > 0
         /\ pc[c] = "set" \/ (pc[c] = "held" /\ via[c] = "set")) => adds[c] >= 1

\* C16's case: under a stale_lock_timeout shorter than the poll interval, a
\* waiter made its one add, which the holder's Lock Entry refused, and came
\* back by mem.set.
C16_Witness ==
    \E h, c \in Callers :
        /\ h /= c
        /\ layer.stale_lock_timeout > 0 /\ layer.stale_lock_timeout < Poll
        /\ Holds(h, Tile1) /\ via[h] = "add"
        /\ Holds(c, Tile1) /\ via[c] = "set" /\ adds[c] = 1

\* A lock call of caller c writes the Lock Entry in this step.
LockWrites(c) == LockSet(c) \/ (LockAdd(c) /\ pc'[c] = "held")

\* C17 as stated: the Lock Entry a lock call writes is there until
\* stale_lock_timeout after the write and gone from then on, when nothing
\* rewrites it, so that an add then succeeds; the store holds no entry whose
\* time has run out.
C17_EntryExpires ==
    [][/\ \A c \in Callers :
            LockWrites(c) =>
                /\ \A t \in now..(now + layer.stale_lock_timeout - 1) :
                        Live(store', LockKeyOf(arg[c]), t)
                /\ add_ok(store', LockKeyOf(arg[c]), now + layer.stale_lock_timeout)
       /\ \A k \in DOMAIN store : store'[k] /= <<>> => Live(store', k, now')]_vars

\* C17 amended: the same for a stale_lock_timeout above zero; with a
\* stale_lock_timeout of zero the Lock Entry is there at every later time.
C17_EntryExpiresPositiveTimeout ==
    [][/\ \A c \in Callers :
            LockWrites(c) =>
                IF layer.stale_lock_timeout > 0
                THEN /\ \A t \in now..(now + layer.stale_lock_timeout - 1) :
                            Live(store', LockKeyOf(arg[c]), t)
                     /\ add_ok(store', LockKeyOf(arg[c]),
                               now + layer.stale_lock_timeout)
                ELSE \A t \in now..MaxTime : Live(store', LockKeyOf(arg[c]), t)
       /\ \A k \in DOMAIN store : store'[k] /= <<>> => Live(store', k, now')]_vars

\* C17's case: a holder that never unlocked, its Lock Entry gone
\* stale_lock_timeout after its add, and a caller that began after that and
\* came back at once by its own add; nothing was stolen.
C17_Witness ==
    \E h, c \in Callers :
        /\ h /= c /\ layer.stale_lock_timeout > 0
        /\ unlocks = "none" /\ ~stolen /\ lapsed
        /\ Holds(h, Tile1) /\ via[h] = "add"
        /\ Holds(c, Tile1) /\ via[c] = "add" /\ adds[c] = 1 /\ took[c] = 0
        /\ store[LockKeyOf(Tile1)] = <<LockedValue, now + layer.stale_lock_timeout>>

\* The Tile Entries and Lock Entries of every identity but t are as before.
OthersKept(t) ==
    \A u \in AllTiles \ {t} :
        /\ store'[KeyOf(u)] = store[KeyOf(u)]
        /\ store'[LockKeyOf(u)] = store[LockKeyOf(u)]

\* Every Tile Entry is as before.
TileEntriesKept == \A u \in AllTiles : store'[KeyOf(u)] = store[KeyOf(u)]

\* Every Lock Entry is as before.
LockEntriesKept == \A u \in AllTiles : store'[LockKeyOf(u)] = store[LockKeyOf(u)]

\* C18: a step of lock or unlock leaves every Tile Entry, and the entries of
\* every other identity, as they are; a save or remove leaves every Lock
\* Entry, and the entries of every other identity, as they are; a read
\* leaves the store as it is; the Cache instance never changes.
C18_Frame ==
    [][/\ LockStep("A") => (TileEntriesKept /\ OthersKept(arg["A"]))
       /\ \A t \in AllTiles :
             /\ LockStart("A", t) => store' = store
             /\ Unlock("A", t) => (TileEntriesKept /\ OthersKept(t))
             /\ Read("B", t) => store' = store
             /\ Remove("B", t) => (LockEntriesKept /\ OthersKept(t))
             /\ \A body \in Bodies :
                   Save("B", body, t) => (LockEntriesKept /\ OthersKept(t))
       /\ self' = self]_vars

\* C19: while no lock call has taken the deadline mem.set, no Lock Entry has
\* expired under a caller that held the lock, and every unlock came from a
\* caller that held the lock: at most one caller holds the lock, and the
\* Lock Entry is in the store exactly while a caller holds the lock.
C19_EntryWhileHeld ==
    (~stolen /\ ~lapsed /\ unlocks /= "rogue") =>
        /\ Mutex(Tile1)
        /\ Live(store, LockKeyOf(Tile1), now) <=> \E c \in Callers : Holds(c, Tile1)

\* C19's case: the first holder has unlocked and is idle, no Lock Entry was
\* stolen or has expired, and the waiter holds the lock by a later add of
\* its own, with the Lock Entry in the store.
C19_Witness ==
    \E a, b \in Callers :
        /\ ~stolen /\ ~lapsed /\ unlocks = "holder"
        /\ pc[a] = "idle" /\ began[a]
        /\ Holds(b, Tile1) /\ via[b] = "add" /\ adds[b] >= 2
        /\ Live(store, LockKeyOf(Tile1), now)

\* The number of poll intervals that cover stale_lock_timeout:
\* ceil(stale_lock_timeout / poll interval).
MaxAdds == PollsCeil \div Poll

\* C20: a lock call returns no later than stale_lock_timeout plus one poll
\* interval after it began, makes ceil(stale_lock_timeout / poll interval)
\* adds at most and one mem.set at most, and no add after its mem.set.
C20_BoundedPolls ==
    \A c \in Callers :
        /\ pc[c] = "held" => took[c] <= layer.stale_lock_timeout + Poll
        /\ adds[c] <= MaxAdds
        /\ sets[c] <= 1
        /\ sets[c] = 1 => (pc[c] = "held" /\ via[c] = "set")

\* C20's case: under a stale_lock_timeout that is no multiple of the poll
\* interval, a lock call made every add it could, then its one mem.set,
\* and came back later than stale_lock_timeout after it began.
C20_Witness ==
    \E c \in Callers :
        /\ layer.stale_lock_timeout > Poll
        /\ PollsCeil > layer.stale_lock_timeout
        /\ pc[c] = "held" /\ via[c] = "set" /\ sets[c] = 1
        /\ adds[c] = MaxAdds
        /\ took[c] > layer.stale_lock_timeout

====
